---------------------------- MODULE Spec2Model ----------------------------
(***************************************************************************)
(* Education-ChatBot (app.py): the session-keyed conversation history, the *)
(* /chat request handler with its scope classifier and bounded history,    *)
(* and the /, /history and /clear_history handlers, as a state machine.    *)
(*                                                                         *)
(* Python values are records [type, text]; a text is a tuple of string     *)
(* pieces, so that an f-string is the concatenation of its pieces.  The    *)
(* classifier's substring and regular-expression tests run on the          *)
(* characters of a text, which Chars looks up piece by piece.              *)
(***************************************************************************)
EXTENDS Naturals, Sequences, FiniteSets, TLC

\* ------------------------------------------------------------------ bounds

\* Number of clients (browsers, each with its own cookie jar).
MaxClients == 2
\* Number of request-handling threads of the server that are modelled.
MaxThreads == 2
\* Number of /chat requests started after the initial state.
MaxChats == 2
\* Number of session tokens uuid4 hands out.
MaxTokens == 3
\* Number of process restarts.
MaxRestarts == 1
\* The initial state holds up to this many earlier complete exchanges.
MaxWarm == 10
\* The tokenizer finds up to this many meaningful tokens in a message.
MaxWords == 6

\* ------------------------------------------------------- program constants

\* "keep last 20 messages" (app.py 1056-1057, 1140-1141)
HistoryLimit == 20
\* history_to_include: [-10:] when len > 5 (app.py 1102)
ContextTurns == 10
ContextThreshold == 5
\* key_concepts[:5] (app.py 152)
TopConcepts == 5
\* avg_sentence_length > 15 or len(key_concepts) > 5 (app.py 112)
LongSentence == 15
ManyConcepts == 5
\* avg_sentence_length < 8 and len(key_concepts) < 3 (app.py 114)
ShortSentence == 8
FewConcepts == 3

Clients == 1..MaxClients
Threads == 1..MaxThreads
\* The absent cookie value: session.get('session_id') is None.
NoToken == 0

\* ------------------------------------------------------------ Python values

PyStr(text) == [type |-> "str", text |-> text]
PyNone == [type |-> "NoneType", text |-> <<>>]
PyInt(s) == [type |-> "int", text |-> <<s>>]
\* Truthy with the test `is not None` in place of truthiness
Truthy_NotNone(v) == v.type # "NoneType"
\* Python truthiness (`not x`): None and "" are falsy, a non-empty str and a
\* non-zero int are truthy.
Truthy(v) ==
    CASE v.type = "NoneType" -> FALSE
      [] v.type = "str" -> v.text # <<>>
      [] v.type = "int" -> v.text # <<"0">>
      [] OTHER -> TRUE

\* The texts of the model.
Q_PHOTO == "What is photosynthesis?"
Q_WEATHER == "What's the weather today?"
R_ANSWER == "Plants turn light into sugar."
REFUSAL == "I'm an educational assistant and can help you with academic topics like math, science, history, and literature. Could you please ask me something related to education or learning?"
SYSTEM_HEAD == "You are EduBot, an educational assistant focused on helping students learn while also being able to engage in natural conversation."
SYSTEM_TAIL == "Your primary focus is educational content, but you should also: ..."
USER_QUESTION == "User question: "
Q_EXPLAIN == "Explain how to solve it"
Q_HOWWHY == "How and why?"
Q_WHYCMP == "Why compare them"
Q_COMPARE == "Compare the two"
Q_STORY == "Tell me a story"
Q_SHOW == "Show me"
Q_HISTORY == "History rocks"

\* The characters of a piece (only the pieces a classifier can be handed).
CharsOfPiece(p) ==
    CASE p = Q_PHOTO -> <<"W", "h", "a", "t", " ", "i", "s", " ", "p", "h", "o", "t", "o", "s", "y", "n", "t", "h", "e", "s", "i", "s", "?">>
      [] p = Q_WEATHER -> <<"W", "h", "a", "t", "'", "s", " ", "t", "h", "e", " ", "w", "e", "a", "t", "h", "e", "r", " ", "t", "o", "d", "a", "y", "?">>
      [] p = Q_EXPLAIN -> <<"E", "x", "p", "l", "a", "i", "n", " ", "h", "o", "w", " ", "t", "o", " ", "s", "o", "l", "v", "e", " ", "i", "t">>
      [] p = Q_HOWWHY -> <<"H", "o", "w", " ", "a", "n", "d", " ", "w", "h", "y", "?">>
      [] p = Q_WHYCMP -> <<"W", "h", "y", " ", "c", "o", "m", "p", "a", "r", "e", " ", "t", "h", "e", "m">>
      [] p = Q_COMPARE -> <<"C", "o", "m", "p", "a", "r", "e", " ", "t", "h", "e", " ", "t", "w", "o">>
      [] p = Q_STORY -> <<"T", "e", "l", "l", " ", "m", "e", " ", "a", " ", "s", "t", "o", "r", "y">>
      [] p = Q_SHOW -> <<"S", "h", "o", "w", " ", "m", "e">>
      [] p = Q_HISTORY -> <<"H", "i", "s", "t", "o", "r", "y", " ", "r", "o", "c", "k", "s">>
      [] OTHER -> <<>>

RECURSIVE Chars(_)
Chars(text) ==
    IF text = <<>> THEN <<>> ELSE CharsOfPiece(Head(text)) \o Chars(Tail(text))

UpperCase == <<"A", "B", "C", "D", "E", "F", "G", "H", "I", "J", "K", "L", "M", "N", "O", "P", "Q", "R", "S", "T", "U", "V", "W", "X", "Y", "Z">>
LowerCase == <<"a", "b", "c", "d", "e", "f", "g", "h", "i", "j", "k", "l", "m", "n", "o", "p", "q", "r", "s", "t", "u", "v", "w", "x", "y", "z">>
LowerChar(c) ==
    IF \E i \in 1..Len(UpperCase) : UpperCase[i] = c
    THEN LowerCase[CHOOSE i \in 1..Len(UpperCase) : UpperCase[i] = c]
    ELSE c
\* str.lower()
Lower(s) == [i \in 1..Len(s) |-> LowerChar(s[i])]

\* --------------------------------------------------------- scope classifier

\* s[i..] starts with lit
HasAt(s, i, lit) ==
    /\ i + Len(lit) - 1 <= Len(s)
    /\ \A k \in 1..Len(lit) : s[i + k - 1] = lit[k]
\* `lit in s`
Contains(s, lit) == \E i \in 1..(Len(s) + 1) : HasAt(s, i, lit)

\* A pattern is a sequence of elements: a set of alternative literals, or
\* DotPlus for ".+" (one or more characters).
DotPlus == {}
RECURSIVE MatchFrom(_, _, _, _)
MatchFrom(s, i, pat, k) ==
    IF k > Len(pat) THEN TRUE
    ELSE IF pat[k] = DotPlus
         THEN \E j \in (i + 1)..(Len(s) + 1) : MatchFrom(s, j, pat, k + 1)
         ELSE \E lit \in pat[k] :
                 HasAt(s, i, lit) /\ MatchFrom(s, i + Len(lit), pat, k + 1)
\* re.search(pat, s)
re_search(pat, s) == \E i \in 1..(Len(s) + 1) : MatchFrom(s, i, pat, 1)

SP == {<<" ">>}
chat_patterns == {
    << {<<"p", "r", "e", "v", "i", "o", "u", "s">>, <<"l", "a", "s", "t">>, <<"e", "a", "r", "l", "i", "e", "r">>}, SP, {<<"m", "e", "s", "s", "a", "g", "e">>, <<"p", "r", "o", "m", "p", "t">>, <<"q", "u", "e", "s", "t", "i", "o", "n">>} >>,
    << {<<"w", "h", "a", "t", " ">>}, {<<"d", "i", "d">>, <<"w", "a", "s">>}, SP, {<<"i">>, <<"y", "o", "u">>}, SP, {<<"s", "a", "y">>, <<"a", "s", "k">>, <<"t", "o", "l", "d">>, <<"t", "e", "l", "l">>} >>,
    << {<<"s", "h", "o", "w">>, <<"d", "i", "s", "p", "l", "a", "y">>, <<"g", "e", "t">>, <<"f", "e", "t", "c", "h">>}, SP, {<<"m", "y">>, <<"t", "h", "e">>}, SP, {<<"h", "i", "s", "t", "o", "r", "y">>, <<"c", "o", "n", "v", "e", "r", "s", "a", "t", "i", "o", "n">>} >>,
    << {<<"w", "h", "a", "t", " ">>}, {<<"i", "s">>, <<"w", "a", "s">>}, {<<" ", "m", "y">>} >>,
    << {<<"c", "a", "n", " ", "y", "o", "u", " ">>}, {<<"r", "e", "m", "e", "m", "b", "e", "r">>, <<"r", "e", "c", "a", "l", "l">>} >> ,
    << {<<"w", "h", "o", " ">>}, {<<"a", "m", " ", "i">>, <<"a", "r", "e", " ", "y", "o", "u">>} >> }

EDUCATIONAL_DOMAINS == {
    <<"m", "a", "t", "h", "e", "m", "a", "t", "i", "c", "s">>, <<"a", "l", "g", "e", "b", "r", "a">>, <<"g", "e", "o", "m", "e", "t", "r", "y">>, <<"c", "a", "l", "c", "u", "l", "u", "s">>, <<"s", "t", "a", "t", "i", "s", "t", "i", "c", "s">>, <<"p", "r", "o", "b", "a", "b", "i", "l", "i", "t", "y">>,
    <<"p", "h", "y", "s", "i", "c", "s">>, <<"c", "h", "e", "m", "i", "s", "t", "r", "y">>, <<"b", "i", "o", "l", "o", "g", "y">>, <<"a", "n", "a", "t", "o", "m", "y">>, <<"a", "s", "t", "r", "o", "n", "o", "m", "y">>, <<"e", "a", "r", "t", "h", " ", "s", "c", "i", "e", "n", "c", "e">>,
    <<"h", "i", "s", "t", "o", "r", "y">>, <<"g", "e", "o", "g", "r", "a", "p", "h", "y">>, <<"c", "i", "v", "i", "c", "s">>, <<"e", "c", "o", "n", "o", "m", "i", "c", "s">>, <<"p", "o", "l", "i", "t", "i", "c", "a", "l", " ", "s", "c", "i", "e", "n", "c", "e">>,
    <<"l", "i", "t", "e", "r", "a", "t", "u", "r", "e">>, <<"g", "r", "a", "m", "m", "a", "r">>, <<"w", "r", "i", "t", "i", "n", "g">>, <<"p", "o", "e", "t", "r", "y">>, <<"l", "a", "n", "g", "u", "a", "g", "e", " ", "a", "r", "t", "s">>,
    <<"c", "o", "m", "p", "u", "t", "e", "r", " ", "s", "c", "i", "e", "n", "c", "e">>, <<"p", "r", "o", "g", "r", "a", "m", "m", "i", "n", "g">>, <<"d", "a", "t", "a", " ", "s", "c", "i", "e", "n", "c", "e">>, <<"a", "r", "t", "i", "f", "i", "c", "i", "a", "l", " ", "i", "n", "t", "e", "l", "l", "i", "g", "e", "n", "c", "e">>,
    <<"a", "r", "t", " ", "h", "i", "s", "t", "o", "r", "y">>, <<"m", "u", "s", "i", "c", " ", "t", "h", "e", "o", "r", "y">>, <<"p", "h", "i", "l", "o", "s", "o", "p", "h", "y">>, <<"p", "s", "y", "c", "h", "o", "l", "o", "g", "y">>, <<"s", "o", "c", "i", "o", "l", "o", "g", "y">>,
    <<"f", "o", "r", "e", "i", "g", "n", " ", "l", "a", "n", "g", "u", "a", "g", "e", "s">>, <<"e", "d", "u", "c", "a", "t", "i", "o", "n">>, <<"s", "t", "u", "d", "y", " ", "s", "k", "i", "l", "l", "s">>, <<"r", "e", "s", "e", "a", "r", "c", "h", " ", "m", "e", "t", "h", "o", "d", "s">> }

\* educational_patterns with the looser first pattern what.+\?
educational_patterns_Loose == {
    << {<<"w", "h", "a", "t">>}, DotPlus, {<<"?">>} >>,
    << {<<"h", "o", "w", " ">>}, {<<"d", "o">>, <<"d", "o", "e", "s">>, <<"c", "a", "n">>, <<"c", "o", "u", "l", "d">>}, SP, DotPlus, {<<"?">>} >>,
    << {<<"w", "h", "y", " ">>}, {<<"i", "s">>, <<"a", "r", "e">>, <<"d", "o", "e", "s">>, <<"d", "o">>}, SP, DotPlus, {<<"?">>} >>,
    << {<<"e", "x", "p", "l", "a", "i", "n", " ">>}, DotPlus >>,
    << {<<"d", "e", "f", "i", "n", "e", " ">>}, DotPlus >>,
    << {<<"d", "e", "s", "c", "r", "i", "b", "e", " ">>}, DotPlus >>,
    << {<<"t", "e", "a", "c", "h", " ", "m", "e", " ">>}, DotPlus >>,
    << {<<"l", "e", "a", "r", "n", " ", "a", "b", "o", "u", "t", " ">>}, DotPlus >>,
    << {<<"u", "n", "d", "e", "r", "s", "t", "a", "n", "d", " ">>}, DotPlus >>,
    << {<<"h", "e", "l", "p">>, <<"a", "s", "s", "i", "s", "t">>}, SP, DotPlus, SP, {<<"w", "i", "t", "h">>, <<"i", "n">>}, SP, DotPlus >> }
educational_patterns == {
    << {<<"w", "h", "a", "t", " ">>}, {<<"i", "s">>, <<"a", "r", "e">>, <<"w", "a", "s">>, <<"w", "e", "r", "e">>}, SP, DotPlus, {<<"?">>} >>,
    << {<<"h", "o", "w", " ">>}, {<<"d", "o">>, <<"d", "o", "e", "s">>, <<"c", "a", "n">>, <<"c", "o", "u", "l", "d">>}, SP, DotPlus, {<<"?">>} >>,
    << {<<"w", "h", "y", " ">>}, {<<"i", "s">>, <<"a", "r", "e">>, <<"d", "o", "e", "s">>, <<"d", "o">>}, SP, DotPlus, {<<"?">>} >>,
    << {<<"e", "x", "p", "l", "a", "i", "n", " ">>}, DotPlus >>,
    << {<<"d", "e", "f", "i", "n", "e", " ">>}, DotPlus >>,
    << {<<"d", "e", "s", "c", "r", "i", "b", "e", " ">>}, DotPlus >>,
    << {<<"t", "e", "a", "c", "h", " ", "m", "e", " ">>}, DotPlus >>,
    << {<<"l", "e", "a", "r", "n", " ", "a", "b", "o", "u", "t", " ">>}, DotPlus >>,
    << {<<"u", "n", "d", "e", "r", "s", "t", "a", "n", "d", " ">>}, DotPlus >>,
    << {<<"h", "e", "l", "p">>, <<"a", "s", "s", "i", "s", "t">>}, SP, DotPlus, SP, {<<"w", "i", "t", "h">>, <<"i", "n">>}, SP, DotPlus >> }

\* is_educational_query with the rules tried on the text as it was typed
is_educational_query_AsTyped(text) ==
    LET query == Chars(text)
    IN  \/ \E pattern \in chat_patterns : re_search(pattern, query)
        \/ \E domain \in EDUCATIONAL_DOMAINS : Contains(query, domain)
        \/ \E pattern \in educational_patterns : re_search(pattern, query)
\* is_educational_query applied to a str value with the given text.
is_educational_query(text) ==
    LET query_lower == Lower(Chars(text))
    IN  \/ \E pattern \in chat_patterns : re_search(pattern, query_lower)
        \/ \E domain \in EDUCATIONAL_DOMAINS : Contains(query_lower, domain)
        \/ \E pattern \in educational_patterns : re_search(pattern, query_lower)

\* The texts a request can carry, and the classifier's verdict on each.
Texts == {<<>>, <<Q_PHOTO>>, <<Q_WEATHER>>}
\* The texts the extractor and the classifier are tried on by themselves.
Samples == Texts \cup {<<Q_EXPLAIN>>, <<Q_HOWWHY>>, <<Q_WHYCMP>>, <<Q_COMPARE>>,
                       <<Q_STORY>>, <<Q_SHOW>>, <<Q_HISTORY>>}
in_scope == [text \in Samples |-> is_educational_query(text)]

\* ---------------------------------------------------------------- extractor

\* What the toolkit makes of a text: the tokens that are alphanumeric and not
\* stop words (meaningful_tokens), their lemmas and part-of-speech tags, and
\* the number of tokens of each sentence.
NoNlp == [words |-> <<>>, lemmas |-> <<>>, tags |-> <<>>, sentences |-> <<>>]
\* word_tokenize, pos_tag and sent_tokenize on the texts of the requests.
Nlp(text) ==
    CASE text = <<Q_PHOTO>> ->
             [words |-> <<"photosynthesis">>, lemmas |-> <<"photosynthesis">>,
              tags |-> <<"NN">>, sentences |-> <<4>>]
      [] text = <<Q_WEATHER>> ->
             [words |-> <<"weather", "today">>, lemmas |-> <<"weather", "today">>,
              tags |-> <<"NN", "NN">>, sentences |-> <<6>>]
      [] OTHER -> NoNlp

\* The toolkit as the module found it (lines 24-48): "ok"; "unavailable" when
\* the lemmatizer is None and stop_words is empty; "nodata" when the
\* tokenizer's data was not downloaded, so that word_tokenize raises.
ToolkitStates == {"ok", "unavailable", "nodata"}

\* pos.startswith('NN') or pos.startswith('JJ'), over the tagger's tag set
IsConceptTag(pos) == pos \in {"NN", "NNS", "NNP", "NNPS", "JJ", "JJR", "JJS"}
\* [word for word, pos in pos_tags if ...]
RECURSIVE key_concepts_of(_, _)
key_concepts_of(words, tags) ==
    IF words = <<>> THEN <<>>
    ELSE (IF IsConceptTag(Head(tags)) THEN <<Head(words)>> ELSE <<>>)
             \o key_concepts_of(Tail(words), Tail(tags))
RECURSIVE Sum(_)
Sum(list) == IF list = <<>> THEN 0 ELSE Head(list) + Sum(Tail(list))

\* any(word in text.lower() for word in [...])
AnyIn(lower, keywords) == \E word \in keywords : Contains(lower, word)
KW_DEFINITION == {<<"w", "h", "a", "t">>, <<"d", "e", "f", "i", "n", "e">>, <<"e", "x", "p", "l", "a", "i", "n">>}
KW_PROCEDURAL == {<<"h", "o", "w">>, <<"s", "o", "l", "v", "e">>, <<"c", "a", "l", "c", "u", "l", "a", "t", "e">>}
KW_CONCEPTUAL == {<<"w", "h", "y">>, <<"b", "e", "c", "a", "u", "s", "e">>, <<"r", "e", "a", "s", "o", "n">>}
KW_COMPARISON == {<<"c", "o", "m", "p", "a", "r", "e">>, <<"d", "i", "f", "f", "e", "r", "e", "n", "c", "e">>, <<"s", "i", "m", "i", "l", "a", "r">>}
\* question_type with the categories tested in another order
question_type_of_Reordered(lower) ==
    IF AnyIn(lower, KW_COMPARISON) THEN "comparison"
    ELSE IF AnyIn(lower, KW_CONCEPTUAL) THEN "conceptual"
    ELSE IF AnyIn(lower, KW_PROCEDURAL) THEN "procedural"
    ELSE IF AnyIn(lower, KW_DEFINITION) THEN "definition"
    ELSE "general"
\* Lines 96-105: the if/elif chain over text.lower()
question_type_of(lower) ==
    IF AnyIn(lower, KW_DEFINITION) THEN "definition"
    ELSE IF AnyIn(lower, KW_PROCEDURAL) THEN "procedural"
    ELSE IF AnyIn(lower, KW_CONCEPTUAL) THEN "conceptual"
    ELSE IF AnyIn(lower, KW_COMPARISON) THEN "comparison"
    ELSE "general"
\* Lines 111-115, with avg_sentence_length = total / count
complexity_of(total, count, concepts) ==
    IF total > LongSentence * count \/ concepts > ManyConcepts THEN "high"
    ELSE IF total < ShortSentence * count /\ concepts < FewConcepts THEN "low"
    ELSE "medium"

\* The dict of lines 81 and 128.
DefaultAnalysis ==
    [tokens |-> <<>>, key_concepts |-> <<>>, question_type |-> "general",
     complexity |-> "medium"]
\* Lines 84-124: the analysis when nothing raises.
full_analysis(user_input, nlp) ==
    LET key_concepts == key_concepts_of(nlp.words, nlp.tags)
    IN  [tokens |-> nlp.lemmas,
         key_concepts |-> key_concepts,
         question_type |-> question_type_of(Lower(Chars(user_input.text))),
         complexity |-> complexity_of(Sum(nlp.sentences), Len(nlp.sentences),
                                      Len(key_concepts)),
         sentence_count |-> Len(nlp.sentences),
         word_count |-> Len(nlp.words)]
\* The analysis cannot be made: the toolkit is unavailable (line 80), or
\* something raises (line 126): text.lower() of a value that is no str,
\* word_tokenize without its data, or the division by len(sentences) = 0.
Degraded(user_input, toolkit, nlp) ==
    \/ toolkit = "unavailable"
    \/ user_input.type # "str"
    \/ toolkit = "nodata"
    \/ nlp.sentences = <<>>
\* analyze_user_input with a degraded result that is not the default
analyze_user_input_Low(user_input, toolkit, nlp) ==
    IF Degraded(user_input, toolkit, nlp)
    THEN [DefaultAnalysis EXCEPT !.complexity = "low"]
    ELSE full_analysis(user_input, nlp)
\* analyze_user_input
analyze_user_input(user_input, toolkit, nlp) ==
    IF Degraded(user_input, toolkit, nlp)
    THEN DefaultAnalysis
    ELSE full_analysis(user_input, nlp)

\* ------------------------------------------------------------------- state

VARIABLES
    GEMINI_API_KEY,        \* TRUE when the key is set (then client is a Client, else None)
    conversation_history,  \* the dict: session token -> list of turns
    session,               \* client -> the session_id in its Flask session cookie, or NoToken
    uuid,                  \* the next token uuid.uuid4() returns
    thread,                \* thread -> the request it is handling and its response
    audit,                 \* token -> what was appended to it, how its chats ended,
                           \* and how many of their backend calls raised
    nchats,                \* /chat requests accepted so far
    nrestarts,             \* process restarts so far
    toolkit,               \* the linguistic toolkit as lines 24-48 found it
    probe                  \* the extractor and the augmenter tried by themselves

vars == <<GEMINI_API_KEY, conversation_history, session, uuid, thread, audit,
          nchats, nrestarts, toolkit, probe>>

\* Lines 57-61: client is a genai.Client when the key is set, None otherwise.
client == IF GEMINI_API_KEY THEN "Client" ELSE "None"
\* Unconfigured with `and` in place of `or`
Unconfigured_And == ~GEMINI_API_KEY /\ client # "None"
\* Line 1010: not GEMINI_API_KEY or not client
Unconfigured == ~GEMINI_API_KEY \/ client = "None"

Turn(role, content) == [role |-> role, content |-> content]
\* LastN with the slice taken from the wrong end: list[:n]
LastN_Head(list, n) ==
    IF Len(list) > n THEN SubSeq(list, 1, n) ELSE list
\* list[-n:]
LastN(list, n) ==
    IF Len(list) > n THEN SubSeq(list, Len(list) - n + 1, Len(list)) ELSE list

\* conversation_history[key] = []  (a new key, or an existing one)
SetEmpty(history, key) ==
    [k \in (DOMAIN history) \cup {key} |-> IF k = key THEN <<>> ELSE history[k]]
\* AppendTurn with the turn put at the front: insert(0, turn)
AppendTurn_Front(history, key, turn) ==
    [history EXCEPT ![key] = <<turn>> \o @]
\* conversation_history[key].append(turn)
AppendTurn(history, key, turn) ==
    [history EXCEPT ![key] = Append(@, turn)]

\* The request bodies request.get_json() can return.
\* no JSON data (None), a non-empty array, an object without "message", and
\* an object with it; message is data.get('message') where data has a get.
JsonNull == [json |-> "null", message |-> PyNone]
JsonArray == [json |-> "array", message |-> PyNone]
JsonOtherKey == [json |-> "object", message |-> PyNone]
JsonMessage(v) == [json |-> "object", message |-> v]
Messages == {PyStr(text) : text \in Texts} \cup {PyInt("42")}
Bodies == {JsonNull, JsonArray, JsonOtherKey} \cup {JsonMessage(v) : v \in Messages}
\* `not data`
NoData(body) == body.json = "null"

\* What the model backend can do with a call.
Outcomes == {"text", "none", "raise"}

\* jsonify(...) and its status; home returns the page.
\* No analysis made (yet).
NoAnalysis ==
    [tokens |-> <<>>, key_concepts |-> <<>>, question_type |-> "", complexity |-> ""]
NoResponse ==
    [status |-> 0, kind |-> "", reply |-> PyNone, history |-> <<>>, error |-> "",
     analysis |-> NoAnalysis]
Page == [NoResponse EXCEPT !.status = 200, !.kind = "page"]
History(list) == [NoResponse EXCEPT !.status = 200, !.kind = "history", !.history = list]
Success == [NoResponse EXCEPT !.status = 200, !.kind = "status"]
Reply(text, list, analysis) ==
    [NoResponse EXCEPT !.status = 200, !.kind = "reply", !.reply = text,
                       !.history = list, !.analysis = analysis]
Error(status, message) ==
    [NoResponse EXCEPT !.status = status, !.kind = "error", !.error = message]
E_CONFIG == "Google Gemini API key not set. Please check your .env file."
E_NODATA == "No JSON data received"
E_NOMESSAGE == "No message provided"
E_UNEXPECTED == "An unexpected error occurred: ..."

\* A thread: where its handler is (pc), the request (op, client, the cookie's
\* token, body), the handler's locals, the calls of the model backend it made
\* and what the last one did, its response, the dict as the request found it,
\* the extractor's analysis of the message, and whether a clear_history of its
\* session completed while it waited for the model backend.
Idle == [pc |-> "idle", op |-> "", client |-> 0, token |-> NoToken, body |-> JsonNull,
         session_id |-> NoToken, user_input |-> PyNone, bot_reply |-> PyNone,
         branch |-> "", contents |-> <<>>, calls |-> 0, outcome |-> "",
         trimmed |-> <<>>, response |-> NoResponse, found |-> <<>>,
         input_analysis |-> NoAnalysis, cleared |-> FALSE]

NoAudit == [appended |-> <<>>, ok |-> 0, bad |-> 0, raised |-> 0]
Audited(a, key, turn) == [a EXCEPT ![key].appended = Append(@, turn)]
Ended(a, key, status) ==
    IF status = 200 THEN [a EXCEPT ![key].ok = @ + 1] ELSE [a EXCEPT ![key].bad = @ + 1]
Opened(a, key) == [k \in (DOMAIN a) \cup {key} |-> IF k = key THEN NoAudit ELSE a[k]]

T_DEFINITION == "This appears to be a definition question. Please provide a clear, comprehensive explanation with examples.\\n"
T_PROCEDURAL == "This appears to be a procedural question. Please provide step-by-step instructions or methods.\\n"
T_CONCEPTUAL == "This appears to be a conceptual question. Please explain the underlying principles and reasoning.\\n"
T_COMPARISON == "This appears to be a comparison question. Please highlight similarities and differences clearly.\\n"
C_HIGH == "This is a complex question. Please break down the answer into manageable parts and use clear explanations.\\n"
C_LOW == "This is a straightforward question. Please provide a concise but complete answer.\\n"
KEY_HEAD == "Key concepts identified: "
KEY_TAIL == ". Please make sure to address these in your response.\\n"
COMMA == ", "
NL2 == "\\n\\n"
\* list[:n]
FirstN(list, n) == IF Len(list) > n THEN SubSeq(list, 1, n) ELSE list
\* sep.join(list)
RECURSIVE Join(_, _)
Join(sep, list) ==
    IF list = <<>> THEN <<>>
    ELSE IF Len(list) = 1 THEN list
    ELSE <<Head(list), sep>> \o Join(sep, Tail(list))
\* enhance_educational_prompt with the key concepts line put before the others
enhance_educational_prompt_KeyFirst(user_input, analysis) ==
    <<USER_QUESTION>> \o user_input.text \o <<NL2>>
    \o (IF analysis.key_concepts # <<>>
        THEN <<KEY_HEAD>> \o Join(COMMA, analysis.key_concepts) \o <<KEY_TAIL>>
        ELSE <<>>)
    \o (IF analysis.question_type = "definition" THEN <<T_DEFINITION>>
        ELSE IF analysis.question_type = "procedural" THEN <<T_PROCEDURAL>>
        ELSE IF analysis.question_type = "conceptual" THEN <<T_CONCEPTUAL>>
        ELSE IF analysis.question_type = "comparison" THEN <<T_COMPARISON>>
        ELSE <<>>)
    \o (IF analysis.complexity = "high" THEN <<C_HIGH>>
        ELSE IF analysis.complexity = "low" THEN <<C_LOW>>
        ELSE <<>>)
\* enhance_educational_prompt: the base prompt, then the lines for the
\* question type, the complexity and the key concepts.
enhance_educational_prompt(user_input, analysis) ==
    <<USER_QUESTION>> \o user_input.text \o <<NL2>>
    \o (IF analysis.question_type = "definition" THEN <<T_DEFINITION>>
        ELSE IF analysis.question_type = "procedural" THEN <<T_PROCEDURAL>>
        ELSE IF analysis.question_type = "conceptual" THEN <<T_CONCEPTUAL>>
        ELSE IF analysis.question_type = "comparison" THEN <<T_COMPARISON>>
        ELSE <<>>)
    \o (IF analysis.complexity = "high" THEN <<C_HIGH>>
        ELSE IF analysis.complexity = "low" THEN <<C_LOW>>
        ELSE <<>>)
    \o (IF analysis.key_concepts # <<>>
        THEN <<KEY_HEAD>> \o Join(COMMA, FirstN(analysis.key_concepts, TopConcepts))
                 \o <<KEY_TAIL>>
        ELSE <<>>)
\* system_prompt, an f-string around enhanced_prompt
system_prompt(user_input, analysis) ==
    <<SYSTEM_HEAD>> \o enhance_educational_prompt(user_input, analysis)
        \o <<SYSTEM_TAIL>>
\* types.Content(role=..., parts=[Part.from_text(text=...)])
Content(role, text) == [role |-> role, text |-> text]
\* history_to_include with the whole list taken as context
history_to_include_All(list) == list
\* history_to_include
history_to_include(list) ==
    IF Len(list) > ContextThreshold THEN LastN(list, ContextTurns) ELSE list
\* contents_for with the context taken before the current user turn
contents_for_Stale(user_input, analysis, list) ==
    <<[role |-> "user", text |-> [type |-> "str", text |-> <<SYSTEM_HEAD>>]]>> \o
    [i \in 1..(Len(list) - 1) |->
        [role |-> IF list[i].role = "user" THEN "user" ELSE "model",
         text |-> list[i].content]]
\* contents: the system prompt, then the turns of history_to_include
contents_for(user_input, analysis, list) ==
    <<Content("user", PyStr(system_prompt(user_input, analysis)))>> \o
    [i \in 1..Len(history_to_include(list)) |->
        Content(IF history_to_include(list)[i].role = "user" THEN "user" ELSE "model",
                history_to_include(list)[i].content)]

\* SessionFor with a stale token mapped to a session that already exists
SessionFor_Reuse(token, history, fresh) ==
    IF token = NoToken \/ token \notin DOMAIN history
    THEN IF DOMAIN history = {} THEN fresh ELSE CHOOSE k \in DOMAIN history : TRUE
    ELSE token
\* NeedsSession with a new session made for every request
NeedsSession_Always(token, history) == TRUE
\* Lines 1029-1033: the session a /chat request works on.
NeedsSession(token, history) == token = NoToken \/ token \notin DOMAIN history
SessionFor(token, history, fresh) ==
    IF NeedsSession(token, history) THEN fresh ELSE token

\* ------------------------------------------------------------ initial state

\* Nothing is being tried by itself.
NoProbe ==
    [stage |-> "", user_input |-> PyNone, nlp |-> NoNlp,
     analysis |-> NoAnalysis, scope |-> FALSE, prompt |-> <<>>]

\* The exchange a client had as its k-th: a question the model answered, or
\* an out-of-scope message and the canned refusal.
WarmUser(k) == PyStr(<<IF k % 2 = 1 THEN Q_PHOTO ELSE Q_WEATHER>>)
WarmAssistant(k) ==
    PyStr(<<IF in_scope[WarmUser(k).text] THEN R_ANSWER ELSE REFUSAL>>)
RECURSIVE WarmAppended(_)
WarmAppended(n) ==
    IF n = 0 THEN <<>>
    ELSE WarmAppended(n - 1) \o
         <<Turn("user", WarmUser(n)), Turn("assistant", WarmAssistant(n))>>
\* The list after n such exchanges, each trimmed as /chat trims it.
RECURSIVE WarmHistory(_)
WarmHistory(n) ==
    IF n = 0 THEN <<>>
    ELSE LET l == WarmHistory(n - 1) \o
                  <<Turn("user", WarmUser(n)), Turn("assistant", WarmAssistant(n))>>
         IN  IF Len(l) > HistoryLimit THEN LastN(l, HistoryLimit) ELSE l

\* A fresh process that no client has contacted.
InitCold ==
    /\ conversation_history = <<>>
    /\ session = [c \in Clients |-> NoToken]
    /\ uuid = 1
    /\ audit = <<>>
\* A process in which client 1 has loaded the page and had n exchanges, one
\* request at a time: a history at the limit, or one exchange short of it.
InitWarm(n) ==
    /\ conversation_history = (1 :> WarmHistory(n))
    /\ session = [c \in Clients |-> IF c = 1 THEN 1 ELSE NoToken]
    /\ uuid = 2
    /\ audit = (1 :> [appended |-> WarmAppended(n), ok |-> n, bad |-> 0, raised |-> 0])

Init ==
    /\ GEMINI_API_KEY \in BOOLEAN
    /\ toolkit \in ToolkitStates
    /\ probe = NoProbe
    /\ thread = [t \in Threads |-> Idle]
    /\ nchats = 0
    /\ nrestarts = 0
    /\ \/ InitCold
       \/ \E n \in {MaxWarm - 1, MaxWarm} : GEMINI_API_KEY /\ InitWarm(n)

\* ------------------------------------------------------------------ actions

\* No request is being handled: every thread is idle.
AtRest == \A t \in Threads : thread[t].pc = "idle"

\* A request of client c, carrying the session_id of its cookie.
Request(op, c) ==
    [Idle EXCEPT !.op = op, !.client = c, !.token = session[c],
                 !.found = conversation_history]
\* A thread's request ends with this response.
Done(t, response) == [thread EXCEPT ![t].pc = "done", ![t].response = response]

\* GET / (home): a client without a session_id in its cookie gets a fresh one
\* and an empty history.
home(t, c) ==
    /\ thread[t].pc = "idle"
    /\ IF session[c] = NoToken
       THEN /\ uuid <= MaxTokens
            /\ conversation_history' = SetEmpty(conversation_history, uuid)
            /\ audit' = Opened(audit, uuid)
            /\ uuid' = uuid + 1
            /\ thread' = [thread EXCEPT ![t] =
                            [Request("home", c) EXCEPT !.pc = "done", !.session_id = uuid,
                                                       !.response = Page]]
       ELSE /\ thread' = [thread EXCEPT ![t] =
                            [Request("home", c) EXCEPT !.pc = "done", !.response = Page]]
            /\ UNCHANGED <<conversation_history, audit, uuid>>
    /\ UNCHANGED <<toolkit, probe, GEMINI_API_KEY, session, nchats, nrestarts>>

\* GET /history
get_history(t, c) ==
    /\ thread[t].pc = "idle"
    /\ thread' = [thread EXCEPT ![t] =
                    [Request("get_history", c) EXCEPT
                        !.pc = "done",
                        !.response =
                            IF session[c] = NoToken
                                  \/ session[c] \notin DOMAIN conversation_history
                            THEN History(<<>>)
                            ELSE History(conversation_history[session[c]])]]
    /\ UNCHANGED <<toolkit, probe, GEMINI_API_KEY, conversation_history, session, uuid, audit,
                   nchats, nrestarts>>

\* Cleared without the membership test
Cleared_Unchecked(history, token) ==
    [k \in (DOMAIN history) \cup {token} |-> IF k = token THEN <<>> ELSE history[k]]
\* Lines 1166-1168: the dict after clear_history for a cookie holding token.
Cleared(history, token) ==
    IF token # NoToken /\ token \in DOMAIN history
    THEN [history EXCEPT ![token] = <<>>]
    ELSE history

\* POST /clear_history
clear_history(t, c) ==
    /\ thread[t].pc = "idle"
    /\ conversation_history' = Cleared(conversation_history, session[c])
    /\ audit' = IF session[c] \in DOMAIN audit
                THEN [audit EXCEPT ![session[c]] = NoAudit] ELSE audit
    /\ thread' = [u \in Threads |->
                    IF u = t
                    THEN [Request("clear_history", c) EXCEPT !.pc = "done",
                                                             !.response = Success]
                    ELSE IF thread[u].pc = "await" /\ thread[u].session_id = session[c]
                    THEN [thread[u] EXCEPT !.cleared = TRUE]
                    ELSE thread[u]]
    /\ UNCHANGED <<toolkit, probe, GEMINI_API_KEY, session, uuid, nchats, nrestarts>>

\* POST /chat, lines 1010-1039: the configuration and payload checks, the
\* session, and the user turn.
chat_begin(t, c, body) ==
    /\ thread[t].pc = "idle"
    /\ LET req == [Request("chat", c) EXCEPT !.body = body]
           user_input == body.message
       IN
       IF Unconfigured
       THEN /\ thread' = [thread EXCEPT ![t] =
                            [req EXCEPT !.pc = "done", !.response = Error(500, E_CONFIG)]]
            /\ UNCHANGED <<conversation_history, uuid, audit, nchats>>
       ELSE IF NoData(body)
       THEN /\ thread' = [thread EXCEPT ![t] =
                            [req EXCEPT !.pc = "done", !.response = Error(400, E_NODATA)]]
            /\ UNCHANGED <<conversation_history, uuid, audit, nchats>>
       ELSE IF body.json # "object"
       THEN \* data.get raises AttributeError, caught at line 1150
            /\ thread' = [thread EXCEPT ![t] =
                            [req EXCEPT !.pc = "done", !.response = Error(500, E_UNEXPECTED)]]
            /\ UNCHANGED <<conversation_history, uuid, audit, nchats>>
       ELSE IF ~Truthy(user_input)
       THEN /\ thread' = [thread EXCEPT ![t] =
                            [req EXCEPT !.pc = "done", !.response = Error(400, E_NOMESSAGE)]]
            /\ UNCHANGED <<conversation_history, uuid, audit, nchats>>
       ELSE LET create == NeedsSession(session[c], conversation_history)
                session_id == SessionFor(session[c], conversation_history, uuid)
                opened == IF create THEN SetEmpty(conversation_history, session_id)
                          ELSE conversation_history
                turn == Turn("user", user_input)
            IN  /\ nchats < MaxChats
                /\ create => uuid <= MaxTokens
                /\ uuid' = IF create THEN uuid + 1 ELSE uuid
                /\ conversation_history' = AppendTurn(opened, session_id, turn)
                /\ audit' = Audited(IF create THEN Opened(audit, session_id) ELSE audit,
                                    session_id, turn)
                /\ nchats' = nchats + 1
                /\ thread' = [thread EXCEPT ![t] =
                                [req EXCEPT !.pc = "analyze", !.session_id = session_id,
                                            !.user_input = user_input]]
    /\ UNCHANGED <<toolkit, probe, GEMINI_API_KEY, session, nrestarts>>

\* Lines 1041-1128: the analysis (which never raises), the scope check, and
\* either the canned refusal or the call of the model backend.
chat_classify(t) ==
    /\ thread[t].pc = "analyze"
    /\ LET r == thread[t]
           key == r.session_id
           input_analysis ==
               analyze_user_input(r.user_input, toolkit, Nlp(r.user_input.text))
       IN
       IF r.user_input.type # "str"
       THEN \* query.lower() raises AttributeError, caught at line 1150
            /\ thread' = [Done(t, Error(500, E_UNEXPECTED))
                             EXCEPT ![t].input_analysis = input_analysis]
            /\ audit' = Ended(audit, key, 500)
            /\ UNCHANGED conversation_history
       ELSE IF ~in_scope[r.user_input.text]
       THEN LET bot_response == PyStr(<<REFUSAL>>)
                turn == Turn("assistant", bot_response)
            IN  /\ conversation_history' = AppendTurn(conversation_history, key, turn)
                /\ audit' = Audited(audit, key, turn)
                /\ thread' = [thread EXCEPT ![t].pc = "check", ![t].branch = "refusal",
                                            ![t].bot_reply = bot_response,
                                            ![t].input_analysis = input_analysis]
       ELSE /\ thread' = [thread EXCEPT ![t].pc = "await", ![t].branch = "model",
                             ![t].contents =
                                 contents_for(r.user_input, input_analysis,
                                              conversation_history[key]),
                             ![t].input_analysis = input_analysis,
                             ![t].calls = @ + 1]
            /\ UNCHANGED <<conversation_history, audit>>
    /\ UNCHANGED <<toolkit, probe, GEMINI_API_KEY, session, uuid, nchats, nrestarts>>

\* Lines 1124-1137 and 1150-1152: generate_content returns or raises.
backend_returns(t, outcome) ==
    /\ thread[t].pc = "await"
    /\ LET key == thread[t].session_id
       IN
       IF outcome = "raise"
       THEN /\ thread' = [Done(t, Error(500, E_UNEXPECTED)) EXCEPT ![t].outcome = outcome]
            /\ audit' = [Ended(audit, key, 500) EXCEPT ![key].raised = @ + 1]
            /\ UNCHANGED conversation_history
       ELSE LET bot_reply == IF outcome = "text" THEN PyStr(<<R_ANSWER>>) ELSE PyNone
                turn == Turn("assistant", bot_reply)
            IN  /\ conversation_history' = AppendTurn(conversation_history, key, turn)
                /\ audit' = Audited(audit, key, turn)
                /\ thread' = [thread EXCEPT ![t].pc = "check", ![t].bot_reply = bot_reply,
                                            ![t].outcome = outcome]
    /\ UNCHANGED <<toolkit, probe, GEMINI_API_KEY, session, uuid, nchats, nrestarts>>

\* Returned with the refusal path answering an empty reply
Returned_Blank(r, list) ==
    [status |-> 200, kind |-> "reply", reply |-> [type |-> "str", text |-> <<>>],
     history |-> list, error |-> "", analysis |-> r.input_analysis]
\* The return after the trim: lines 1059-1063, or 1143-1148 where
\* bot_reply[:100] raises TypeError for a reply that is None.
Returned(r, list) ==
    IF r.branch = "model" /\ r.bot_reply.type # "str"
    THEN Error(500, E_UNEXPECTED)
    ELSE Reply(r.bot_reply, list, r.input_analysis)

\* Lines 1056 and 1140: if len(conversation_history[session_id]) > 20
trim_check(t) ==
    /\ thread[t].pc = "check"
    /\ IF Len(conversation_history[thread[t].session_id]) > HistoryLimit
       THEN /\ thread' = [thread EXCEPT ![t].pc = "slice"]
            /\ UNCHANGED audit
       ELSE /\ thread' = Done(t, Returned(thread[t],
                                           conversation_history[thread[t].session_id]))
            /\ audit' = Ended(audit, thread[t].session_id,
                              Returned(thread[t], <<>>).status)
    /\ UNCHANGED <<toolkit, probe, GEMINI_API_KEY, conversation_history, session, uuid, nchats, nrestarts>>

\* Lines 1057 and 1141, right-hand side: conversation_history[session_id][-20:]
trim_slice(t) ==
    /\ thread[t].pc = "slice"
    /\ thread' = [thread EXCEPT ![t].pc = "assign",
                     ![t].trimmed =
                         LastN(conversation_history[thread[t].session_id], HistoryLimit)]
    /\ UNCHANGED <<toolkit, probe, GEMINI_API_KEY, conversation_history, session, uuid, audit, nchats, nrestarts>>

\* Lines 1057 and 1141, the assignment, and the return that follows.
trim_assign(t) ==
    /\ thread[t].pc = "assign"
    /\ conversation_history' =
           [conversation_history EXCEPT ![thread[t].session_id] = thread[t].trimmed]
    /\ thread' = [Done(t, Returned(thread[t], thread[t].trimmed))
                     EXCEPT ![t].trimmed = <<>>]
    /\ audit' = Ended(audit, thread[t].session_id, Returned(thread[t], <<>>).status)
    /\ UNCHANGED <<toolkit, probe, GEMINI_API_KEY, session, uuid, nchats, nrestarts>>

\* The response reaches the client, with the cookie of a session made for it.
respond(t) ==
    /\ thread[t].pc = "done"
    /\ session' = IF thread[t].session_id \notin {NoToken, thread[t].token}
                  THEN [session EXCEPT ![thread[t].client] = thread[t].session_id]
                  ELSE session
    /\ thread' = [thread EXCEPT ![t] = Idle]
    /\ UNCHANGED <<toolkit, probe, GEMINI_API_KEY, conversation_history, uuid, audit,
                   nchats, nrestarts>>

\* The process restarts (lines 51-64): the dict is empty again, requests in
\* progress are gone, the key is read again, and the cookies stay valid only
\* when SECRET_KEY is set.
restart ==
    /\ nrestarts < MaxRestarts
    /\ nrestarts' = nrestarts + 1
    /\ conversation_history' = <<>>
    /\ audit' = <<>>
    /\ thread' = [t \in Threads |-> Idle]
    /\ GEMINI_API_KEY' \in BOOLEAN
    /\ session' \in {session, [c \in Clients |-> NoToken]}
    /\ toolkit' \in ToolkitStates
    /\ UNCHANGED <<uuid, nchats, probe>>

\* A step of the handler of a /chat request.
work(t) ==
    \/ chat_classify(t)
    \/ \E outcome \in Outcomes : backend_returns(t, outcome)
    \/ trim_check(t)
    \/ trim_slice(t)
    \/ trim_assign(t)

\* The thread that takes the next request: which of the idle ones is immaterial.
Free(t) ==
    /\ thread[t].pc = "idle"
    /\ \A u \in Threads : u < t => thread[u].pc # "idle"
\* The server tells clients apart by their cookies only, so a request
\* without one is taken to come from the first client that has none.
Arrives(c) ==
    session[c] = NoToken => \A d \in Clients : d < c => session[d] # NoToken
\* A handler has returned and its response is on its way.
Pending == \E t \in Threads : thread[t].pc = "done"

\* The server as app.run starts it: requests are handled by threads, and the
\* steps of their handlers interleave.  A response is sent as soon as its
\* handler returns.
Next ==
    \/ ~Pending /\ \E t \in Threads, c \in Clients :
                        Free(t) /\ Arrives(c) /\ home(t, c)
    \/ ~Pending /\ \E t \in Threads, c \in Clients :
                        Free(t) /\ Arrives(c) /\ get_history(t, c)
    \/ ~Pending /\ \E t \in Threads, c \in Clients :
                        Free(t) /\ Arrives(c) /\ clear_history(t, c)
    \/ ~Pending /\ \E t \in Threads, c \in Clients, body \in Bodies :
                        Free(t) /\ Arrives(c) /\ chat_begin(t, c, body)
    \/ ~Pending /\ \E t \in Threads : work(t)
    \/ \E t \in Threads : respond(t)
    \/ ~Pending /\ restart

Spec == Init /\ [][Next]_vars

\* The reference deployment of the specification: each request is handled to
\* completion before the next one starts.
SeqNext ==
    \/ AtRest /\ \E c \in Clients : Arrives(c) /\ home(1, c)
    \/ AtRest /\ \E c \in Clients : Arrives(c) /\ get_history(1, c)
    \/ AtRest /\ \E c \in Clients : Arrives(c) /\ clear_history(1, c)
    \/ AtRest /\ \E c \in Clients, body \in Bodies : Arrives(c) /\ chat_begin(1, c, body)
    \/ work(1)
    \/ respond(1)
    \/ AtRest /\ restart

SeqSpec == Init /\ [][SeqNext]_vars

\* ------------------------------------------------- the functions by themselves

\* The tokens the toolkit can find, their tags, and the sentences' lengths.
WORDS == <<"light", "leaf", "sugar", "plant", "water", "cell", "root", "stem">>
TagSamples == {"NN", "JJR", "VB"}
SentenceSamples == {<<>>, <<4>>, <<8>>, <<15>>, <<16>>, <<4, 20>>, <<15, 16>>}
NlpSamples ==
    { [words |-> SubSeq(WORDS, 1, n), lemmas |-> SubSeq(WORDS, 1, n),
       tags |-> [i \in 1..n |-> IF i % 2 = 1 THEN a ELSE b],
       sentences |-> s] :
      n \in 0..MaxWords, a \in TagSamples, b \in TagSamples, s \in SentenceSamples }

\* A message, and what the toolkit makes of it, are handed to the functions.
ProbeInit ==
    /\ GEMINI_API_KEY = TRUE
    /\ toolkit \in ToolkitStates
    /\ thread = [t \in Threads |-> Idle]
    /\ nchats = 0
    /\ nrestarts = 0
    /\ InitCold
    /\ \E text \in Samples, nlp \in NlpSamples :
           probe = [NoProbe EXCEPT !.stage = "input", !.user_input = PyStr(text),
                                   !.nlp = nlp]

\* input_analysis = analyze_user_input(user_input)
extract ==
    /\ probe.stage = "input"
    /\ probe' = [probe EXCEPT !.stage = "analysed",
                              !.analysis = analyze_user_input(probe.user_input, toolkit,
                                                              probe.nlp)]
    /\ UNCHANGED <<GEMINI_API_KEY, conversation_history, session, uuid, thread, audit,
                   nchats, nrestarts, toolkit>>
\* is_educational_query(user_input)
classify ==
    /\ probe.stage = "analysed"
    /\ probe' = [probe EXCEPT !.stage = "classified",
                              !.scope = in_scope[probe.user_input.text]]
    /\ UNCHANGED <<GEMINI_API_KEY, conversation_history, session, uuid, thread, audit,
                   nchats, nrestarts, toolkit>>
\* enhanced_prompt = enhance_educational_prompt(user_input, input_analysis)
augment ==
    /\ probe.stage = "classified"
    /\ probe' = [probe EXCEPT !.stage = "augmented",
                              !.prompt = enhance_educational_prompt(probe.user_input,
                                                                    probe.analysis)]
    /\ UNCHANGED <<GEMINI_API_KEY, conversation_history, session, uuid, thread, audit,
                   nchats, nrestarts, toolkit>>

ProbeNext == extract \/ classify \/ augment

ProbeSpec == ProbeInit /\ [][ProbeNext]_vars

\* ------------------------------------------------------------------ claims

Min(a, b) == IF a < b THEN a ELSE b
\* The last n elements of list, all of it when it has no more than n.
Suffix(list, n) == [i \in 1..Min(n, Len(list)) |-> list[Len(list) - Min(n, Len(list)) + i]]
\* The list of a session in a dict, empty when the dict has no such session.
ListOf(history, key) == IF key \in DOMAIN history THEN history[key] ELSE <<>>
\* A /chat request whose handler has returned.
ChatDone(t) == thread[t].pc = "done" /\ thread[t].op = "chat"
\* The message of a request body is empty or absent.
EmptyOrAbsent(body) == body.message.type = "NoneType" \/ body.message = PyStr(<<>>)

\* C1: whenever no request is in progress, every session's stored history has
\* at most 20 turns, whatever requests were served before, chat requests that
\* are out of scope or whose backend call fails included.
C1_HistoryWithinLimitAtRest ==
    AtRest => \A s \in DOMAIN conversation_history :
                  Len(conversation_history[s]) <= HistoryLimit

\* C2: after N consecutive successful exchanges on a session since its creation
\* or last clear, the stored history is exactly the last min(2N, 20) of the 2N
\* appended turns, in their order.
C2_FifoTruncation ==
    AtRest =>
        \A s \in DOMAIN conversation_history :
            audit[s].bad = 0 =>
                LET n == audit[s].ok
                    all == audit[s].appended
                    keep == Min(2 * n, HistoryLimit)
                IN  /\ Len(all) = 2 * n
                    /\ Len(conversation_history[s]) = keep
                    /\ \A i \in 1..keep :
                           conversation_history[s][i] = all[2 * n - keep + i]
\* A session at rest after more successful exchanges than the limit holds.
C2_Witness ==
    /\ AtRest
    /\ nchats > 0
    /\ \E s \in DOMAIN conversation_history :
           /\ audit[s].bad = 0
           /\ 2 * audit[s].ok > HistoryLimit
           /\ Len(conversation_history[s]) = HistoryLimit

\* C3: when the backend call of a chat request raises, the response is an
\* error, the backend was called once, and the session's history is the
\* history the request found followed by exactly the new user turn.
C3_BackendFailureKeepsUserTurn ==
    \A t \in Threads :
        ChatDone(t) /\ thread[t].outcome = "raise" =>
            /\ thread[t].response.kind = "error"
            /\ thread[t].response.status = 500
            /\ thread[t].calls = 1
            /\ conversation_history[thread[t].session_id] =
                   ListOf(thread[t].found, thread[t].session_id)
                       \o <<Turn("user", thread[t].user_input)>>
\* A backend call has raised for a session that already held turns.
C3_Witness ==
    \E t \in Threads :
        /\ ChatDone(t)
        /\ thread[t].outcome = "raise"
        /\ ListOf(thread[t].found, thread[t].session_id) # <<>>

\* C4: for a chat request whose message the scope classifier rejects, the
\* backend is never invoked, the user turn and then an assistant turn holding
\* the canned refusal are appended (and the list trimmed to its last 20), and
\* the reply of the response is that refusal.
C4_OutOfScopeRefused ==
    \A t \in Threads :
        /\ ChatDone(t) /\ thread[t].session_id # NoToken
              /\ thread[t].user_input.type = "str"
              /\ ~in_scope[thread[t].user_input.text]
           => thread[t].branch = "refusal"
        /\ ChatDone(t) /\ thread[t].branch = "refusal" =>
              /\ thread[t].calls = 0
              /\ thread[t].response.status = 200
              /\ thread[t].response.reply = PyStr(<<REFUSAL>>)
              /\ conversation_history[thread[t].session_id] =
                     Suffix(ListOf(thread[t].found, thread[t].session_id)
                                \o <<Turn("user", thread[t].user_input),
                                     Turn("assistant", PyStr(<<REFUSAL>>))>>,
                            HistoryLimit)
\* An out-of-scope message has been refused in a session whose list was full.
C4_Witness ==
    \E t \in Threads :
        /\ ChatDone(t)
        /\ thread[t].branch = "refusal"
        /\ Len(ListOf(thread[t].found, thread[t].session_id)) >= HistoryLimit

C6_ContextSlice ==
    /\ \A s \in DOMAIN conversation_history :
           \A k \in 0..Len(conversation_history[s]) :
               LET list == SubSeq(conversation_history[s], 1, k)
                   slice == history_to_include(list)
                   n == IF k > ContextThreshold THEN Min(k, ContextTurns) ELSE k
               IN  /\ Len(slice) = n
                   /\ \A i \in 1..n : slice[i] = list[k - n + i]
    /\ \A t \in Threads :
           thread[t].pc = "await" =>
               LET list == conversation_history[thread[t].session_id]
                   k == Len(list)
                   n == IF k > ContextThreshold THEN Min(k, ContextTurns) ELSE k
               IN  /\ Len(thread[t].contents) = 1 + n
                   /\ \A i \in 1..n :
                          thread[t].contents[1 + i].text = list[k - n + i].content
\* A request waits for the backend with a history of more than 10 turns.
C6_Witness ==
    \E t \in Threads :
        /\ thread[t].pc = "await"
        /\ Len(conversation_history[thread[t].session_id]) > ContextTurns

\* C7: a valid, in-scope chat request with a configured backend invokes the
\* backend exactly once, with one freshly built system turn followed by the
\* context slice of the history taken after the current user turn was
\* appended, so that the sequence ends with the current user message; the
\* system turn is never stored in a history.
C7_OneCallWithSystemThenContext ==
    /\ \A t \in Threads :
           /\ thread[t].op = "chat" /\ thread[t].session_id # NoToken
              /\ thread[t].user_input.type = "str"
              /\ in_scope[thread[t].user_input.text]
              /\ thread[t].pc \notin {"idle", "analyze"}
           => /\ thread[t].calls = 1
              /\ Len(thread[t].contents) >= 2
              /\ thread[t].contents[1] =
                     Content("user",
                             PyStr(<<SYSTEM_HEAD>>
                                       \o enhance_educational_prompt(
                                              thread[t].user_input,
                                              thread[t].input_analysis)
                                       \o <<SYSTEM_TAIL>>))
              /\ thread[t].contents[Len(thread[t].contents)] =
                     Content("user", thread[t].user_input)
              /\ thread[t].pc = "await" =>
                     \A i \in 2..Len(thread[t].contents) :
                         LET list == conversation_history[thread[t].session_id]
                             j == Len(list) - Len(thread[t].contents) + i
                         IN  /\ j >= 1
                             /\ thread[t].contents[i].text = list[j].content
                             /\ thread[t].contents[i].role =
                                    IF list[j].role = "user" THEN "user" ELSE "model"
    /\ \A t \in Threads : thread[t].calls <= 1
    /\ \A s \in DOMAIN conversation_history :
           \A i \in 1..Len(conversation_history[s]) :
               /\ conversation_history[s][i].role \in {"user", "assistant"}
               /\ conversation_history[s][i].content.text = <<>>
                     \/ Head(conversation_history[s][i].content.text) # SYSTEM_HEAD
\* An in-scope request has called the backend once and been answered.
C7_Witness ==
    \E t \in Threads :
        /\ ChatDone(t)
        /\ thread[t].calls = 1
        /\ thread[t].response.status = 200
        /\ Len(thread[t].contents) > ContextTurns

\* C8: clear_history always succeeds: for a known session it sets the history
\* to empty, for an unknown or absent session it changes nothing (no session
\* is created), and a second clear leaves the state the first one left.
C8_ClearHistory ==
    \A t \in Threads :
        thread[t].pc = "done" /\ thread[t].op = "clear_history" =>
            /\ thread[t].response.status = 200
            /\ thread[t].response.kind = "status"
            /\ DOMAIN conversation_history = DOMAIN thread[t].found
            /\ \A s \in DOMAIN conversation_history :
                   conversation_history[s] =
                       IF s = thread[t].token THEN <<>> ELSE thread[t].found[s]
            /\ Cleared(conversation_history, thread[t].token) = conversation_history
\* A clear_history request has emptied a session that held turns.
C8_Witness ==
    \E t \in Threads :
        /\ thread[t].pc = "done" /\ thread[t].op = "clear_history"
        /\ ListOf(thread[t].found, thread[t].token) # <<>>
        /\ conversation_history[thread[t].token] = <<>>

\* The step is one of thread t handling a request.
Acts(t) == thread'[t] # thread[t] /\ thread'[t].pc # "idle"
\* C9: histories are never shared across sessions: a step of a request that
\* carries token s leaves the history of every other existing session
\* unchanged, and the session it works on is the one of its token or, when the
\* token is absent or stale, a session that did not exist.
C9_NoSharingAcrossSessions ==
    [][/\ \A s \in DOMAIN conversation_history :
             \/ s \in DOMAIN conversation_history'
                   /\ conversation_history'[s] = conversation_history[s]
             \/ nrestarts' # nrestarts
             \/ \E t \in Threads :
                   Acts(t) /\ s \in {thread'[t].token, thread'[t].session_id}
       /\ \A t \in Threads :
             Acts(t) /\ thread[t].pc = "idle" /\ thread'[t].session_id # NoToken =>
                 \/ thread'[t].session_id = thread'[t].token
                       /\ thread'[t].token \in DOMAIN conversation_history
                 \/ thread'[t].session_id \notin DOMAIN conversation_history
                       /\ thread'[t].token \notin DOMAIN conversation_history
      ]_vars
\* A request with a stale token works on a fresh session while another session
\* holds turns.
C9_Witness ==
    \E t \in Threads :
        /\ thread[t].pc = "check"
        /\ thread[t].token # NoToken
        /\ thread[t].token # thread[t].session_id
        /\ \E s \in DOMAIN conversation_history :
               s # thread[t].session_id /\ conversation_history[s] # <<>>

\* C10: when chat requests for one session are served concurrently, no
\* interleaving of their appends, length checks and trim assignments loses an
\* appended turn or leaves the history longer than 20 once they have
\* completed: for a session whose chat requests all succeeded, with no clear
\* since the first of them began, the stored list is the tail of what was
\* appended and has at most 20 turns.
C10_NoLostTurn ==
    AtRest =>
        \A s \in DOMAIN conversation_history :
            audit[s].bad = 0 /\ Len(audit[s].appended) = 2 * audit[s].ok =>
                /\ Len(conversation_history[s]) <= HistoryLimit
                /\ conversation_history[s] =
                       Suffix(audit[s].appended, Len(conversation_history[s]))

\* A request whose handler has returned.
Handled(t) == thread[t].pc = "done"
\* The request carries no token, or one that is not a key of the dict it found.
NoValidToken(t) ==
    thread[t].token = NoToken \/ thread[t].token \notin DOMAIN thread[t].found
\* The request has a session made for it: a fresh token whose list holds only
\* what this request appended, next to the sessions it found, left as they were.
SessionMade(t) ==
    LET r == thread[t]
    IN  /\ r.session_id # NoToken
        /\ r.session_id # r.token
        /\ r.session_id \notin DOMAIN r.found
        /\ DOMAIN conversation_history = (DOMAIN r.found) \cup {r.session_id}
        /\ \A s \in DOMAIN r.found : conversation_history[s] = r.found[s]
        /\ conversation_history[r.session_id] = audit[r.session_id].appended
        /\ Len(conversation_history[r.session_id]) <= 2
\* The request reaches the code that makes a session: home with no cookie
\* value, /chat past its configuration and payload checks.
ReachesSessionStep(t) ==
    LET r == thread[t]
    IN  \/ r.op = "home" /\ r.token = NoToken
        \/ /\ r.op = "chat"
           /\ GEMINI_API_KEY
           /\ r.body.json = "object"
           /\ Truthy(r.body.message)

\* C11, as stated: whenever a request of any kind (page load, chat, history,
\* clear_history) arrives with a token that is absent or not a key of the
\* session map, a session with a fresh token and one initially empty history
\* exists for that client once the request completes.
C11_SessionOnAnyFirstContact ==
    \A t \in Threads : Handled(t) /\ NoValidToken(t) => SessionMade(t)
\* C11, amended: a session with a fresh token and one history, empty but for
\* the turns of the request itself, is made by a page load that carries no
\* token and by a chat request that passes the configuration and payload
\* checks with a token that is absent or not a key of the session map; a
\* history or clear_history request, a page load with a token that is not a
\* key, a chat request rejected by those checks, and any request with a valid
\* token make no session.
C11_SessionOnFirstContact ==
    \A t \in Threads :
        Handled(t) =>
            IF NoValidToken(t) /\ ReachesSessionStep(t)
            THEN SessionMade(t)
            ELSE /\ DOMAIN conversation_history = DOMAIN thread[t].found
                 /\ thread[t].session_id \in {NoToken, thread[t].token}
\* A chat request with a token that is not a key has had a session made.
C11_Witness ==
    \E t \in Threads :
        /\ Handled(t)
        /\ thread[t].op = "chat"
        /\ thread[t].token # NoToken
        /\ thread[t].token \notin DOMAIN thread[t].found
        /\ thread[t].session_id \in DOMAIN conversation_history

\* C12: every turn stored in any session's history has role user or assistant
\* and a content that is a text string, never null or a value of another type,
\* for every request message that passes validation and every response the
\* backend returns.
C12_TurnsAreText ==
    \A s \in DOMAIN conversation_history :
        \A i \in 1..Len(conversation_history[s]) :
            /\ conversation_history[s][i].role \in {"user", "assistant"}
            /\ conversation_history[s][i].content.type = "str"

\* list a with turns appended at its tail is list b.
IsPrefix(a, b) == Len(a) <= Len(b) /\ SubSeq(b, 1, Len(a)) = a
\* list b with turns dropped from its head is list a.
IsSuffix(a, b) == Len(a) <= Len(b) /\ SubSeq(b, Len(b) - Len(a) + 1, Len(b)) = a
\* C13: a session's history is append-only except for head truncation: every
\* step of every request changes it only by appending turns at the tail or by
\* dropping turns from the head (or, for clear_history, by emptying it); a
\* stored turn is never modified, reordered, or removed from the middle or the
\* tail, for as long as the process lives.
C13_AppendOnlyButHead ==
    [][nrestarts' = nrestarts =>
          \A s \in DOMAIN conversation_history :
              /\ s \in DOMAIN conversation_history'
              /\ \/ IsPrefix(conversation_history[s], conversation_history'[s])
                 \/ IsSuffix(conversation_history'[s], conversation_history[s])
      ]_vars

\* A /chat request past its analysis step.
Analysed(t) ==
    /\ thread[t].op = "chat"
    /\ thread[t].session_id # NoToken
    /\ thread[t].pc \notin {"idle", "analyze"}
\* What a /chat request leaves in its session's list, told from the message,
\* the list it found and what the backend did, the analysis left aside.
ListAfterChat(t) ==
    LET r == thread[t]
        base == ListOf(r.found, r.session_id) \o <<Turn("user", r.user_input)>>
    IN  IF r.user_input.type # "str" THEN base
        ELSE IF ~in_scope[r.user_input.text]
        THEN Suffix(base \o <<Turn("assistant", PyStr(<<REFUSAL>>))>>, HistoryLimit)
        ELSE IF r.outcome = "raise" THEN base
        ELSE Suffix(base \o <<Turn("assistant", r.bot_reply)>>, HistoryLimit)

\* C14: a failure or unavailability of the linguistic toolkit never fails a
\* chat request: the extractor then returns the constant default (empty
\* tokens, empty key concepts, question type "general", complexity "medium")
\* and the request proceeds with the scope decision, the history updates and
\* the number of backend calls that the message, the stored list and the
\* backend's answer alone decide, with the toolkit at work or not.
C14_DegradedAnalysisProceeds ==
    \A t \in Threads :
        Analysed(t) =>
            LET r == thread[t]
                text == r.user_input.type = "str"
            IN  /\ toolkit # "ok" => r.input_analysis = DefaultAnalysis
                /\ r.branch = IF ~text THEN ""
                              ELSE IF in_scope[r.user_input.text] THEN "model"
                              ELSE "refusal"
                /\ r.calls = IF r.branch = "model" THEN 1 ELSE 0
                /\ r.pc = "done" =>
                       /\ conversation_history[r.session_id] = ListAfterChat(t)
                       /\ r.response.status =
                              IF text /\ r.outcome \notin {"raise", "none"}
                              THEN 200 ELSE 500
                       /\ r.response.status = 200 /\ toolkit # "ok" =>
                              r.response.analysis = DefaultAnalysis
\* Without the toolkit's data a request has been answered by the backend.
C14_Witness ==
    \E t \in Threads :
        /\ ChatDone(t)
        /\ toolkit = "nodata"
        /\ thread[t].branch = "model"
        /\ thread[t].response.status = 200
        /\ thread[t].response.analysis = DefaultAnalysis

\* C15, as stated: the input "What's the weather today?" matches the generic
\* "what is/are ... ?" pattern and is classified in-scope, so a chat request
\* with that message reaches the model backend rather than the canned refusal.
C15_WeatherInScope ==
    \A t \in Threads :
        Analysed(t) /\ thread[t].user_input = PyStr(<<Q_WEATHER>>) =>
            /\ in_scope[<<Q_WEATHER>>]
            /\ thread[t].branch = "model"
            /\ thread[t].calls = 1
\* C15, amended: the input "What's the weather today?" matches no pattern and
\* no domain keyword (the generic pattern needs "what is", "what are", "what
\* was" or "what were" spelled out) and is classified out-of-scope, so a chat
\* request with that message gets the canned refusal and never reaches the
\* model backend.
C15_WeatherRefused ==
    /\ ~in_scope[<<Q_WEATHER>>]
    /\ \A t \in Threads :
           Analysed(t) /\ thread[t].user_input = PyStr(<<Q_WEATHER>>) =>
               /\ thread[t].branch = "refusal"
               /\ thread[t].calls = 0
               /\ thread[t].bot_reply = PyStr(<<REFUSAL>>)
               /\ thread[t].pc = "done" =>
                      thread[t].response = Reply(PyStr(<<REFUSAL>>),
                                                 conversation_history[thread[t].session_id],
                                                 thread[t].input_analysis)
\* The weather question has been answered with the refusal.
C15_Witness ==
    \E t \in Threads :
        /\ ChatDone(t)
        /\ thread[t].user_input = PyStr(<<Q_WEATHER>>)
        /\ thread[t].response.status = 200
        /\ thread[t].response.reply = PyStr(<<REFUSAL>>)

\* The rules of the classifier, each by itself, on the lowercased text.
SelfReference(lower) == \E pattern \in chat_patterns : re_search(pattern, lower)
DomainKeyword(lower) == \E domain \in EDUCATIONAL_DOMAINS : Contains(lower, domain)
QuestionShape(lower) == \E pattern \in educational_patterns : re_search(pattern, lower)
SomeRule ==
    [text \in Samples |->
        \/ QuestionShape(Lower(Chars(text)))
        \/ DomainKeyword(Lower(Chars(text)))
        \/ SelfReference(Lower(Chars(text)))]
HasHistory ==
    [text \in Samples |-> Contains(Lower(Chars(text)), <<"h", "i", "s", "t", "o", "r", "y">>)]
\* C16: the scope classifier is a pure, order-independent disjunction of its
\* rules: its result for a text is true exactly when at least one
\* self-reference pattern, domain keyword or question-shape pattern matches
\* the lowercased text, whatever the toolkit made of the text and whatever was
\* done before, and a text containing the domain keyword "history" is
\* in-scope whatever its sentence shape.
C16_ScopeIsDisjunctionOfRules ==
    probe.stage \in {"classified", "augmented"} =>
        /\ probe.scope = SomeRule[probe.user_input.text]
        /\ HasHistory[probe.user_input.text] => probe.scope
        /\ probe.scope = (probe.user_input.text \in
                              {<<Q_PHOTO>>, <<Q_EXPLAIN>>, <<Q_HISTORY>>})
\* A text with the keyword "history" and no question shape has been classified.
C16_Witness ==
    /\ probe.stage = "classified"
    /\ probe.user_input = PyStr(<<Q_HISTORY>>)
    /\ probe.scope
    /\ ~QuestionShape(Lower(Chars(probe.user_input.text)))

\* C17: when no model backend credential or client is configured, every chat
\* request, whatever its body (valid, empty, without a message, in-scope or
\* out-of-scope), fails with the configuration error (500), calls the backend
\* not even once, and leaves the session map and every history unchanged.
C17_UnconfiguredFailsEveryChat ==
    \A t \in Threads :
        thread[t].op = "chat" /\ ~GEMINI_API_KEY =>
            /\ thread[t].pc = "done"
            /\ thread[t].response = Error(500, E_CONFIG)
            /\ thread[t].calls = 0
            /\ thread[t].session_id = NoToken
            /\ conversation_history = thread[t].found
\* An in-scope message has been turned down by a server without a key that
\* holds a session.
C17_Witness ==
    \E t \in Threads :
        /\ ChatDone(t)
        /\ ~GEMINI_API_KEY
        /\ thread[t].body = JsonMessage(PyStr(<<Q_PHOTO>>))
        /\ thread[t].response.status = 500
        /\ DOMAIN conversation_history # {}

\* The extractor has analysed the probe's text and nothing degraded.
FullyAnalysed ==
    /\ probe.stage \in {"analysed", "classified", "augmented"}
    /\ toolkit = "ok"
    /\ probe.nlp.sentences # <<>>
\* The categories in their priority order, and those with a keyword that
\* occurs in the lowercased text.
Categories == <<"definition", "procedural", "conceptual", "comparison">>
Keywords == <<KW_DEFINITION, KW_PROCEDURAL, KW_CONCEPTUAL, KW_COMPARISON>>
Matching ==
    [text \in Samples |->
        {i \in 1..Len(Categories) : AnyIn(Lower(Chars(text)), Keywords[i])}]
\* C18: on a non-degraded run the extractor's question-type label is decided
\* by first-match-wins in the fixed priority order definition, procedural,
\* conceptual, comparison: it is the first category whose keyword set has a
\* member occurring as a substring of the lowercased original text, and
\* "general" when no category matches; a text matching several categories
\* gets the highest-priority one, and exactly one label is produced.
C18_QuestionTypeFirstMatch ==
    FullyAnalysed =>
        LET m == Matching[probe.user_input.text]
            label == probe.analysis.question_type
        IN  /\ label \in {"definition", "procedural", "conceptual", "comparison",
                          "general"}
            /\ m = {} => label = "general"
            /\ m # {} => /\ label = Categories[CHOOSE i \in m : \A j \in m : i <= j]
                         /\ \A i \in m : \A j \in 1..Len(Categories) :
                                label = Categories[j] => j <= i
            /\ probe.user_input.text = <<Q_EXPLAIN>> => label = "definition"
            /\ probe.user_input.text = <<Q_HOWWHY>> => label = "procedural"
            /\ probe.user_input.text = <<Q_WHYCMP>> => label = "conceptual"
            /\ probe.user_input.text = <<Q_COMPARE>> => label = "comparison"
            /\ probe.user_input.text = <<Q_SHOW>> => label = "procedural"
            /\ probe.user_input.text = <<Q_STORY>> => label = "general"
\* A text with keywords of two categories has been labelled.
C18_Witness ==
    /\ FullyAnalysed
    /\ probe.user_input = PyStr(<<Q_HOWWHY>>)
    /\ Cardinality(Matching[probe.user_input.text]) = 2
    /\ probe.analysis.question_type = "procedural"

\* The prompt's lines after the base prompt, each told from its own trigger.
TypeLine(analysis) ==
    CASE analysis.question_type = "definition" -> <<T_DEFINITION>>
      [] analysis.question_type = "procedural" -> <<T_PROCEDURAL>>
      [] analysis.question_type = "conceptual" -> <<T_CONCEPTUAL>>
      [] analysis.question_type = "comparison" -> <<T_COMPARISON>>
      [] OTHER -> <<>>
ComplexityLine(analysis) ==
    CASE analysis.complexity = "high" -> <<C_HIGH>>
      [] analysis.complexity = "low" -> <<C_LOW>>
      [] OTHER -> <<>>
ConceptsLine(analysis) ==
    LET n == Len(analysis.key_concepts)
        m == Min(TopConcepts, n)
    IN  IF n = 0 THEN <<>>
        ELSE <<KEY_HEAD>>
             \o [i \in 1..(2 * m - 1) |->
                    IF i % 2 = 1 THEN analysis.key_concepts[(i + 1) \div 2] ELSE COMMA]
             \o <<KEY_TAIL>>
\* C19: the prompt augmenter's output is built additively in a fixed order:
\* after the base prompt at most one question-type line (none for "general"),
\* then at most one complexity line (only for "high" or "low"), then, only
\* when the key-concept list is not empty, one line listing exactly its first
\* min(5, n) key concepts in order; each line is there by its own trigger
\* alone, so the degraded default summary adds no line at all.
C19_PromptLinesInOrder ==
    probe.stage = "augmented" =>
        LET a == probe.analysis
        IN  /\ probe.prompt =
                   <<USER_QUESTION>> \o probe.user_input.text \o <<NL2>>
                       \o TypeLine(a) \o ComplexityLine(a) \o ConceptsLine(a)
            /\ Len(TypeLine(a)) = (IF a.question_type = "general" THEN 0 ELSE 1)
            /\ Len(ComplexityLine(a)) = (IF a.complexity = "medium" THEN 0 ELSE 1)
            /\ a = DefaultAnalysis =>
                   probe.prompt = <<USER_QUESTION>> \o probe.user_input.text \o <<NL2>>
\* A prompt has been built with a question-type line, a complexity line and
\* a key-concept list longer than five.
C19_Witness ==
    /\ probe.stage = "augmented"
    /\ probe.analysis.question_type = "definition"
    /\ probe.analysis.complexity = "high"
    /\ Len(probe.analysis.key_concepts) > TopConcepts
    /\ Len(probe.prompt) = 3 + 2 + 2 * TopConcepts + 1

\* C20: in any sequential execution (one request handled to completion at a
\* time) in which no backend call fails, every session's history at rest has
\* even length and strictly alternates user, assistant, user, assistant, ...
\* beginning with a user turn, also after truncation to 20 and after
\* clear_history.
C20_AlternatesAtRest ==
    AtRest =>
        \A s \in DOMAIN conversation_history :
            audit[s].raised = 0 =>
                /\ Len(conversation_history[s]) % 2 = 0
                /\ \A i \in 1..Len(conversation_history[s]) :
                       conversation_history[s][i].role =
                           IF i % 2 = 1 THEN "user" ELSE "assistant"

\* C21: if a clear_history request for session s completes while a chat
\* request for s is suspended waiting on the model backend, then once the chat
\* request completes the history of s holds no assistant turn whose user turn
\* the clear removed: it is empty or consists of complete user/assistant
\* exchanges.  It is stated for the moment no other chat request for s is in
\* progress, whose user turn would still wait for its answer.
C21_NoOrphanAssistantAfterClear ==
    \A t \in Threads :
        /\ ChatDone(t)
        /\ thread[t].cleared
        /\ \A u \in Threads \ {t} :
               ~(thread[u].op = "chat" /\ thread[u].session_id = thread[t].session_id)
        =>
            LET list == conversation_history[thread[t].session_id]
            IN  \/ list = <<>>
                \/ /\ Len(list) % 2 = 0
                   /\ \A i \in 1..Len(list) :
                          list[i].role = IF i % 2 = 1 THEN "user" ELSE "assistant"

=============================================================================
